---------------------------- MODULE Spec2Model ----------------------------
(***************************************************************************)
(* State-machine model of bladerf_source_c (lib/bladerf/bladerf_source_c.cc) *)
(* of gr-osmosdr: the streaming work cycle with its growable conversion    *)
(* buffer and consecutive-failure counter, and the RX property setters     *)
(* that can raise (DC offset, IQ balance, bandwidth).                      *)
(*                                                                         *)
(* Numbers.  Sample counts and raw samples are integers.  A float sample   *)
(* is the exact quotient of a 16-bit integer by the scale factor, kept as  *)
(* a reduced fraction <<numerator, denominator>> (every int16 / 2048 is    *)
(* exactly representable in binary32).  A double bandwidth is kept in      *)
(* quarter hertz (the integer 4*b), which represents 0.75 * rate exactly   *)
(* for every integer rate.                                                 *)
(***************************************************************************)
EXTENDS Integers, Sequences, FiniteSets

(***************************************************************************)
(* Bounds of the model.                                                    *)
(***************************************************************************)
\* largest noutput_items the scheduler asks for
MaxN == 2
\* longest run of consecutive failed transfers that is explored
MaxRun == 5
\* largest sample rate (Hz) the device reports
MaxRate == 5
\* largest in-range bandwidth (Hz) a caller asks for
MaxBandwidth == 2

(***************************************************************************)
(* Program constants.                                                      *)
(***************************************************************************)
\* const float scaling = 2048.0f
scaling == 2048
\* gr::block::WORK_DONE
WORK_DONE == -1
\* bladerf_common.h
MAX_CONSECUTIVE_FAILURES == 3
\* osmosdr/source.h: DC offset correction modes
DCOffsetOff == 0
DCOffsetManual == 1
DCOffsetAutomatic == 2
\* osmosdr/source.h: IQ balance correction modes
IQBalanceOff == 0
IQBalanceManual == 1
IQBalanceAutomatic == 2

\* raw 16-bit words the device (or uninitialised memory) can hold
SampleVals == {-2048, 1024}
\* status codes of the hardware layer: 0 is success, the others are errors
HwResults == {0, -1}
\* int mode arguments: the three enumerators and one unrecognised value
Modes == 0 .. 3
\* std::complex<double> correction values, as <<re, im>>
Corrections == {<<0, 0>>, <<1, 0>>}
\* sample rates (Hz) the device reports
Rates == 1 .. MaxRate
\* double bandwidth arguments, in quarter hertz: 0 (automatic), values with
\* and without a fractional part, and the negative values -0.5 and -1.0
BandwidthArgs == (0 .. 4 * MaxBandwidth) \cup {-2, -4}

VARIABLES
    _conv_buf_size,         \* recorded capacity of the scratch buffer, in samples
    _conv_buf,              \* the allocation: 2 int16 words per allocated sample
    _consecutive_failures,  \* failed transfers in a row, as the adapter counts them
    out,                    \* destination buffer of the latest work cycle
    last,                   \* what the latest work cycle was asked and what it did
    fail_run,               \* history: failed transfers in a row, as they happened
    done_seen,              \* history: some work cycle has returned WORK_DONE
    after_done,             \* history: work was invoked after a WORK_DONE return
    hw_sample_rate,         \* device: current RX sample rate (Hz)
    hw_bandwidth,           \* device: RX bandwidth last accepted (Hz)
    hw_dc_offset,           \* device: RX DC offset correction last accepted
    hw_iq_balance,          \* device: RX IQ balance correction last accepted
    ctl                     \* what the latest property setter was asked and what it did

work_vars == <<_conv_buf_size, _conv_buf, _consecutive_failures, out, last,
               fail_run, done_seen, after_done>>
ctl_vars == <<hw_sample_rate, hw_bandwidth, hw_dc_offset, hw_iq_balance, ctl>>
vars == <<_conv_buf_size, _conv_buf, _consecutive_failures, out, last,
          fail_run, done_seen, after_done,
          hw_sample_rate, hw_bandwidth, hw_dc_offset, hw_iq_balance, ctl>>

(***************************************************************************)
(* Pure helpers.                                                           *)
(***************************************************************************)
Abs(x) == IF x < 0 THEN -x ELSE x

RECURSIVE GCD(_, _)
GCD(a, b) == IF b = 0 THEN a ELSE GCD(b, a % b)

\* the exact quotient x / s (s > 0) as a reduced fraction
Quotient(x, s) ==
    LET g == GCD(Abs(x), s)
    IN  <<(IF x < 0 THEN -(Abs(x) \div g) ELSE x \div g), s \div g>>

\* a destination slot the cycle did not write
Untouched == <<0, 0>>

\* the destination buffer handed in by the scheduler: n complex floats
FreshOutput(n) == [i \in 1 .. 2 * n |-> Untouched]

\* samples the allocation holds
Allocated == Len(_conv_buf) \div 2

(***************************************************************************)
(* work(): lines 130-182.                                                  *)
(***************************************************************************)
\* if (noutput_items > _conv_buf_size) _conv_buf_size = noutput_items;
GrownSize(n, size) == IF n > size THEN n ELSE size

\* realloc(_conv_buf, len words) succeeding: the old words are kept up to the
\* smaller length, the new words are uninitialised (mem)
realloc(buf, len, mem) ==
    [i \in 1 .. len |-> IF i <= Len(buf) THEN buf[i] ELSE mem[i]]

\* bladerf_sync_rx writing its first k words (k = 2n on success, any prefix
\* on failure) into the allocation; words past the allocation are not part
\* of the buffer
bladerf_sync_rx(buf, k, mem) ==
    [i \in 1 .. Len(buf) |-> IF i <= k THEN mem[i] ELSE buf[i]]

\* the counter after the transfer: _consecutive_failures++ or = 0
NextFailures_NoReset(cf, rx_ok) == IF rx_ok THEN cf ELSE cf + 1
NextFailures(cf, rx_ok) == IF rx_ok THEN 0 ELSE cf + 1

\* the value work returns, given the counter after the transfer
WorkReturn_Zero(cf, rx_ok, n) ==
    IF rx_ok THEN n ELSE IF cf >= MAX_CONSECUTIVE_FAILURES THEN WORK_DONE ELSE 0
WorkReturn_Gt(cf, rx_ok, n) ==
    IF ~rx_ok /\ cf > MAX_CONSECUTIVE_FAILURES THEN WORK_DONE ELSE n
WorkReturn(cf, rx_ok, n) ==
    IF ~rx_ok /\ cf >= MAX_CONSECUTIVE_FAILURES THEN WORK_DONE ELSE n

\* volk_16i_s32f_convert_32f(dst, src, scalar, num): dst[i] = src[i] / scalar
\* for the first num words
volk_16i_s32f_convert_32f(dst, src, scalar, num) ==
    [i \in DOMAIN dst |-> IF i <= num THEN Quotient(src[i], scalar) ELSE dst[i]]

\* the conversion call of work: 2 * noutput_items words
Converted_HalfLen(dst, src, n) == volk_16i_s32f_convert_32f(dst, src, scaling, n)
Converted(dst, src, n) == volk_16i_s32f_convert_32f(dst, src, scaling, 2 * n)

\* the record of a work cycle
Cycle(n, outcome, rx_ok, ret) ==
    [n |-> n, outcome |-> outcome, rx_ok |-> rx_ok, ret |-> ret,
     run_before |-> fail_run, done_before |-> done_seen,
     alloc_before |-> Allocated]

\* The 2n words of a cycle that the environment decides: the transfer writes
\* the word v into the first k, and the words past them that are fresh from
\* realloc or lie outside the allocation hold the word u.
EnvWords(n, k, v, u) == [i \in 1 .. 2 * n |-> IF i <= k THEN v ELSE u]

\* A work cycle whose realloc fails: lines 140-148.  n is noutput_items.
work_bad_alloc(n) ==
    /\ n > _conv_buf_size
    /\ _conv_buf_size' = n
    /\ out' = FreshOutput(n)
    /\ last' = Cycle(n, "throw", FALSE, 0)
    /\ after_done' = (after_done \/ done_seen)
    /\ UNCHANGED <<_conv_buf, _consecutive_failures, fail_run, done_seen>>
    /\ UNCHANGED ctl_vars

\* A work cycle that reaches the transfer: lines 140-181.  n is
\* noutput_items, rx_ok the outcome of bladerf_sync_rx, k the number of words
\* the transfer wrote (all 2n when it succeeds, any prefix when it fails),
\* mem the words the environment decides.
work(n, rx_ok, k, mem) ==
    LET grow == n > _conv_buf_size
        buf1 == IF grow THEN realloc(_conv_buf, 2 * n, mem) ELSE _conv_buf
        buf2 == bladerf_sync_rx(buf1, k, mem)
        cf1 == NextFailures(_consecutive_failures, rx_ok)
        ret == WorkReturn(cf1, rx_ok, n)
        \* what the conversion reads: the buffer and, when the recorded
        \* capacity exceeds the allocation, the words lying past it
        src == [i \in 1 .. 2 * n |-> IF i <= Len(buf2) THEN buf2[i] ELSE mem[i]]
    IN  /\ (rx_ok \/ (_consecutive_failures < MaxRun /\ fail_run < MaxRun))
        /\ _conv_buf_size' = GrownSize(n, _conv_buf_size)
        /\ _conv_buf' = buf2
        /\ _consecutive_failures' = cf1
        /\ out' = (IF ret = WORK_DONE THEN FreshOutput(n)
                   ELSE Converted(FreshOutput(n), src, n))
        /\ last' = Cycle(n, "return", rx_ok, ret)
        /\ fail_run' = (IF rx_ok THEN 0 ELSE fail_run + 1)
        /\ done_seen' = (done_seen \/ ret = WORK_DONE)
        /\ after_done' = (after_done \/ done_seen)
        /\ UNCHANGED ctl_vars

WorkBadAlloc == \E n \in 1 .. MaxN : work_bad_alloc(n)

WorkOk ==
    \E n \in 1 .. MaxN, v \in SampleVals, u \in SampleVals :
        work(n, TRUE, 2 * n, EnvWords(n, 2 * n, v, u))

WorkFail ==
    \E n \in 1 .. MaxN, v \in SampleVals, u \in SampleVals :
        \E k \in 0 .. 2 * n : work(n, FALSE, k, EnvWords(n, k, v, u))

(***************************************************************************)
(* Property setters: lines 199-207 and 306-389.                            *)
(***************************************************************************)
\* the record of a setter call
Call(op, arg, val, hw_write, hw_arg, hw_ret, threw) ==
    [op |-> op, arg |-> arg, val |-> val, rate |-> hw_sample_rate,
     hw_write |-> hw_write, hw_arg |-> hw_arg, hw_ret |-> hw_ret, threw |-> threw]

\* if( ret ) throw std::runtime_error(...)
Raises_Never(ret) == FALSE
Raises(ret) == ret # 0

\* set_sample_rate(rate): forwarded to the hardware-control layer, which
\* makes rate the device's sample rate
set_sample_rate(rate) ==
    /\ hw_sample_rate' = rate
    /\ ctl' = Call("set_sample_rate", rate, <<0, 0>>, TRUE, rate, 0, FALSE)
    /\ UNCHANGED <<hw_bandwidth, hw_dc_offset, hw_iq_balance>>
    /\ UNCHANGED work_vars

\* set_dc_offset(offset): the hardware-control layer answers ret
set_dc_offset(op, arg, offset, ret) ==
    /\ hw_dc_offset' = (IF ret = 0 THEN offset ELSE hw_dc_offset)
    /\ ctl' = Call(op, arg, offset, TRUE, 0, ret, Raises(ret))
    /\ UNCHANGED <<hw_sample_rate, hw_bandwidth, hw_iq_balance>>
    /\ UNCHANGED work_vars

\* set_dc_offset_mode(mode): Off resets the correction to 0, Manual and
\* Automatic (and any other value) touch nothing
set_dc_offset_mode(mode, ret) ==
    IF mode = DCOffsetOff
    THEN set_dc_offset("set_dc_offset_mode", mode, <<0, 0>>, ret)
    ELSE /\ ret = 0
         /\ ctl' = Call("set_dc_offset_mode", mode, <<0, 0>>, FALSE, 0, 0, FALSE)
         /\ UNCHANGED <<hw_sample_rate, hw_bandwidth, hw_dc_offset, hw_iq_balance>>
         /\ UNCHANGED work_vars

\* set_iq_balance(balance): the hardware-control layer answers ret
set_iq_balance(op, arg, balance, ret) ==
    /\ hw_iq_balance' = (IF ret = 0 THEN balance ELSE hw_iq_balance)
    /\ ctl' = Call(op, arg, balance, TRUE, 0, ret, Raises(ret))
    /\ UNCHANGED <<hw_sample_rate, hw_bandwidth, hw_dc_offset>>
    /\ UNCHANGED work_vars

\* set_iq_balance_mode(mode): as set_dc_offset_mode
set_iq_balance_mode(mode, ret) ==
    IF mode = IQBalanceOff
    THEN set_iq_balance("set_iq_balance_mode", mode, <<0, 0>>, ret)
    ELSE /\ ret = 0
         /\ ctl' = Call("set_iq_balance_mode", mode, <<0, 0>>, FALSE, 0, 0, FALSE)
         /\ UNCHANGED <<hw_sample_rate, hw_bandwidth, hw_dc_offset, hw_iq_balance>>
         /\ UNCHANGED work_vars

\* bandwidth = get_sample_rate() * 0.75, in quarter hertz
AutoBandwidth_FullRate(rate) == 4 * rate
AutoBandwidth(rate) == 3 * rate

\* the bandwidth (quarter hertz) set_bandwidth goes on with
EffectiveBandwidth(bandwidth, rate) ==
    IF bandwidth = 0 THEN AutoBandwidth(rate) ELSE bandwidth

\* a double (quarter hertz) with its fractional part discarded
Truncate(q) == IF q < 0 THEN -((-q) \div 4) ELSE q \div 4

\* the uint32_t values the driver can know of
Uint32Vals == 0 .. (2 * MaxBandwidth + 1)

\* (uint32_t)bandwidth: the truncated value when that is a uint32_t (the
\* model's doubles all lie below 2^32); undefined, hence any value, when
\* it is negative
ToUint32(q) == IF Truncate(q) >= 0 THEN {Truncate(q)} ELSE Uint32Vals

\* set_bandwidth(bandwidth): bandwidth in quarter hertz, u the value handed
\* to the driver, ret the answer of bladerf_set_bandwidth, gret that of the
\* bladerf_get_bandwidth made by the closing get_bandwidth()
set_bandwidth(bandwidth, u, ret, gret) ==
    /\ u \in ToUint32(EffectiveBandwidth(bandwidth, hw_sample_rate))
    /\ (Raises(ret) => gret = 0)
    /\ hw_bandwidth' = (IF ret = 0 THEN u ELSE hw_bandwidth)
    /\ ctl' = Call("set_bandwidth", bandwidth, <<0, 0>>, TRUE, u, ret,
                   Raises(ret) \/ Raises(gret))
    /\ UNCHANGED <<hw_sample_rate, hw_dc_offset, hw_iq_balance>>
    /\ UNCHANGED work_vars

SetSampleRate == \E rate \in Rates : set_sample_rate(rate)

SetDcOffsetMode == \E mode \in Modes, ret \in HwResults : set_dc_offset_mode(mode, ret)

SetDcOffset ==
    \E offset \in Corrections, ret \in HwResults :
        set_dc_offset("set_dc_offset", 0, offset, ret)

SetIqBalanceMode == \E mode \in Modes, ret \in HwResults : set_iq_balance_mode(mode, ret)

SetIqBalance ==
    \E balance \in Corrections, ret \in HwResults :
        set_iq_balance("set_iq_balance", 0, balance, ret)

SetBandwidth ==
    \E bandwidth \in BandwidthArgs, u \in Uint32Vals, ret \in HwResults, gret \in HwResults :
        set_bandwidth(bandwidth, u, ret, gret)

(***************************************************************************)
(* Construction: lines 73-118, with the fields bladerf_common initialises. *)
(***************************************************************************)
\* no cycle has run yet
NoCycle ==
    [n |-> 0, outcome |-> "none", rx_ok |-> FALSE, ret |-> 0,
     run_before |-> 0, done_before |-> FALSE, alloc_before |-> 0]

\* no setter has run yet
NoCall ==
    [op |-> "none", arg |-> 0, val |-> <<0, 0>>, rate |-> 0, hw_write |-> FALSE,
     hw_arg |-> 0, hw_ret |-> 0, threw |-> FALSE]

Init ==
    /\ _conv_buf_size \in 0 .. MaxN
    /\ _conv_buf \in [1 .. 2 * _conv_buf_size -> SampleVals]
    /\ _consecutive_failures = 0
    /\ out = <<>>
    /\ last = NoCycle
    /\ fail_run = 0
    /\ done_seen = FALSE
    /\ after_done = FALSE
    /\ hw_sample_rate = 1
    /\ hw_bandwidth = 0
    /\ hw_dc_offset = <<0, 0>>
    /\ hw_iq_balance = <<0, 0>>
    /\ ctl = NoCall

NextWork == WorkBadAlloc \/ WorkOk \/ WorkFail

NextCtl ==
    \/ SetSampleRate
    \/ SetDcOffsetMode
    \/ SetDcOffset
    \/ SetIqBalanceMode
    \/ SetIqBalance
    \/ SetBandwidth

Next == NextWork \/ NextCtl

\* the whole adapter
Spec == Init /\ [][Next]_vars

\* the streaming path alone: the setters touch none of its state
SpecWork == Init /\ [][NextWork]_vars

\* the property setters alone: work touches none of their state, and the
\* scratch buffer, which they never read, starts empty
InitCtl == Init /\ _conv_buf_size = 0

SpecCtl == InitCtl /\ [][NextCtl]_vars

(***************************************************************************)
(* Properties of the work cycle, checked under SpecWork.                   *)
(***************************************************************************)
\* the latest cycle reached its return statement (it did not throw)
Returned == last.outcome = "return"

\* C1 as stated: after exactly 3 consecutive failed transfers, the next work
\* cycle returns WORK_DONE whatever the outcome of its own transfer.
C1_NextCycleAlwaysDone ==
    (Returned /\ last.run_before = MAX_CONSECUTIVE_FAILURES) => last.ret = WORK_DONE

\* C1, amended: the cycle whose failed transfer is the 3rd consecutive failure
\* itself returns WORK_DONE; the cycle after it returns WORK_DONE exactly
\* when its own transfer fails too, and its sample count otherwise.
C1_ThirdFailureDone ==
    Returned =>
        /\ (fail_run = MAX_CONSECUTIVE_FAILURES => last.ret = WORK_DONE)
        /\ (last.run_before = MAX_CONSECUTIVE_FAILURES =>
                IF last.rx_ok THEN last.ret = last.n ELSE last.ret = WORK_DONE)

\* C1 witness: a cycle has just made the 3rd consecutive failed transfer.
C1_Witness ==
    Returned /\ ~last.rx_ok /\ fail_run = MAX_CONSECUTIVE_FAILURES
             /\ last.ret = WORK_DONE

\* C2 as stated: work returns WORK_DONE exactly when its transfer fails and
\* that failure brings the counter to the threshold 3; in every other case it
\* returns n.
C2_DoneExactlyAtThreshold ==
    Returned =>
        IF ~last.rx_ok /\ _consecutive_failures = MAX_CONSECUTIVE_FAILURES
        THEN last.ret = WORK_DONE
        ELSE last.ret = last.n

\* C2, amended: work returns WORK_DONE exactly when its transfer fails and
\* that failure brings the counter to the threshold 3 or beyond it; in every
\* other case it returns n.
C2_DoneAtOrBeyondThreshold ==
    Returned =>
        IF ~last.rx_ok /\ _consecutive_failures >= MAX_CONSECUTIVE_FAILURES
        THEN last.ret = WORK_DONE
        ELSE last.ret = last.n

\* C2 witness: a failed transfer took the counter beyond the threshold.
C2_Witness ==
    Returned /\ ~last.rx_ok /\ _consecutive_failures > MAX_CONSECUTIVE_FAILURES

\* C3: a successful transfer resets the counter to 0, whatever came before,
\* and work returns WORK_DONE only when at least 3 failed transfers have
\* occurred in a row since the last successful one.
C3_SuccessResets ==
    Returned =>
        /\ (last.rx_ok => _consecutive_failures = 0)
        /\ (last.ret = WORK_DONE => fail_run >= MAX_CONSECUTIVE_FAILURES)

\* C3 witness: a successful transfer has followed 2 consecutive failures.
C3_Witness ==
    Returned /\ last.rx_ok /\ last.run_before = 2 /\ _consecutive_failures = 0

\* C4 as stated: in every reachable state, also after invocations that follow
\* a WORK_DONE return, the counter is within [0, 3].
C4_CounterWithinThreshold ==
    _consecutive_failures \in 0 .. MAX_CONSECUTIVE_FAILURES

\* C4, amended: the counter is never negative, and it is within [0, 3] as long
\* as work has not been invoked again after returning WORK_DONE; it exceeds 3
\* only through failed transfers of such later invocations.
C4_CounterWithinThresholdUntilDone ==
    /\ _consecutive_failures >= 0
    /\ (~after_done => _consecutive_failures <= MAX_CONSECUTIVE_FAILURES)

\* C4 witness: the counter stands at the threshold, work has returned
\* WORK_DONE and has not been invoked since.
C4_Witness ==
    _consecutive_failures = MAX_CONSECUTIVE_FAILURES /\ done_seen /\ ~after_done

\* C5 as stated: the capacity of the scratch buffer never decreases from one
\* cycle to the next, and when a cycle performs its transfer the buffer holds
\* at least the n samples asked for.
C5_CapacityCoversRequest ==
    /\ (last.outcome # "none" => last.alloc_before <= Allocated)
    /\ (Returned => last.n <= Allocated)

\* C8 as stated: every work cycle, whether its transfer succeeded or failed,
\* converts all 2n words of the scratch buffer (divided by 2048) into the
\* destination buffer.
OutputConverted ==
    \A i \in 1 .. 2 * last.n :
        /\ out[i] # Untouched
        /\ (i <= Len(_conv_buf) =>
                out[i][2] > 0 /\ out[i][1] * scaling = out[i][2] * _conv_buf[i])

C8_EveryCycleConverts == Returned => OutputConverted

\* C8, amended: every work cycle that returns a sample count, whether its
\* transfer succeeded or failed, converts all 2n words of the scratch buffer
\* (divided by 2048) into the destination buffer; the cycle that returns
\* WORK_DONE leaves the destination buffer untouched.
C8_ConvertsUnlessDone ==
    Returned =>
        IF last.ret = WORK_DONE
        THEN \A i \in 1 .. 2 * last.n : out[i] = Untouched
        ELSE OutputConverted

\* C8 witness: a cycle whose transfer failed below the threshold has written
\* the whole destination buffer.
C8_Witness ==
    Returned /\ ~last.rx_ok /\ last.ret = last.n /\ last.n > 1 /\ OutputConverted

\* C9 as stated: once a work cycle has returned WORK_DONE, every later work
\* cycle returns WORK_DONE too, whatever the outcome of its transfer.
C9_DoneIsTerminal ==
    (Returned /\ last.done_before) => last.ret = WORK_DONE

\* C9, amended: once a work cycle has returned WORK_DONE, a later cycle whose
\* transfer succeeds returns its sample count and resets the counter; a later
\* cycle whose transfer fails returns WORK_DONE exactly when 3 or more
\* failures have occurred in a row since the last success.
C9_DoneUntilSuccess ==
    (Returned /\ last.done_before) =>
        IF last.rx_ok
        THEN last.ret = last.n /\ _consecutive_failures = 0
        ELSE (last.ret = WORK_DONE) <=> (fail_run >= MAX_CONSECUTIVE_FAILURES)

\* C9 witness: a cycle after a WORK_DONE return has returned a sample count.
C9_Witness ==
    Returned /\ last.done_before /\ last.rx_ok /\ last.ret = last.n

\* C10 as stated: the recorded capacity never exceeds the samples actually
\* allocated, so no cycle transfers n samples into fewer than n.
C10_RecordedWithinAllocated ==
    /\ _conv_buf_size <= Allocated
    /\ (Returned => last.n <= Allocated)

(***************************************************************************)
(* Properties of the setters, checked under SpecCtl.                       *)
(***************************************************************************)
\* the bandwidth (quarter hertz) the latest set_bandwidth was to apply
Wanted == IF ctl.arg = 0 THEN 3 * ctl.rate ELSE ctl.arg

\* C6 as stated: set_bandwidth(0) hands the hardware exactly 0.75 times the
\* current sample rate, set_bandwidth(b) with b # 0 exactly b (stated for
\* the bandwidths whose conversion to uint32_t is defined).
C6_BandwidthExact ==
    (ctl.op = "set_bandwidth" /\ Wanted >= 0) => 4 * ctl.hw_arg = Wanted

\* C6, amended: set_bandwidth(0) hands the hardware 0.75 times the current
\* sample rate, and set_bandwidth(b) with b # 0 hands it b, each with its
\* fractional part discarded (for values above -1 and below 2^32); the device
\* holds that value once the hardware accepts it.
C6_BandwidthTruncated ==
    ctl.op = "set_bandwidth" =>
        /\ (Wanted >= 0 => 4 * ctl.hw_arg <= Wanted /\ Wanted < 4 * ctl.hw_arg + 4)
        /\ (Wanted < 0 /\ Wanted > -4 => ctl.hw_arg = 0)
        /\ (ctl.hw_ret = 0 => hw_bandwidth = ctl.hw_arg)

\* C6 witness: set_bandwidth(0) at a sample rate whose 0.75-fold is no integer.
C6_Witness ==
    ctl.op = "set_bandwidth" /\ ctl.arg = 0 /\ (3 * ctl.rate) % 4 # 0
                             /\ ctl.hw_ret = 0

\* C7: a failure of the hardware layer while setting DC offset, IQ balance or
\* bandwidth makes the call raise, also when the write is reached through
\* set_dc_offset_mode(Off), set_iq_balance_mode(Off) or set_bandwidth(0); the
\* Manual and Automatic modes write nothing to the hardware and raise nothing.
C7_HardwareFailureRaises ==
    /\ (ctl.hw_write /\ ctl.hw_ret # 0) => ctl.threw
    /\ (ctl.op = "set_dc_offset_mode" /\ ctl.arg = DCOffsetOff) => ctl.hw_write
    /\ (ctl.op = "set_iq_balance_mode" /\ ctl.arg = IQBalanceOff) => ctl.hw_write
    /\ (ctl.op \in {"set_dc_offset", "set_iq_balance", "set_bandwidth"}) => ctl.hw_write
    /\ (ctl.op = "set_dc_offset_mode" /\ ctl.arg \in {DCOffsetManual, DCOffsetAutomatic})
            => (~ctl.hw_write /\ ~ctl.threw)
    /\ (ctl.op = "set_iq_balance_mode" /\ ctl.arg \in {IQBalanceManual, IQBalanceAutomatic})
            => (~ctl.hw_write /\ ~ctl.threw)

\* C7 witness: set_dc_offset_mode(Off) has raised on a hardware failure.
C7_Witness ==
    ctl.op = "set_dc_offset_mode" /\ ctl.arg = DCOffsetOff /\ ctl.hw_ret # 0
                                  /\ ctl.threw
=============================================================================
